---- MODULE Spec2Model ----
(***************************************************************************)
(* Subscription enforcement of subscribe_checker for one (user, chat)      *)
(* pair: the group-message handler, the "I subscribed" re-check callback,  *)
(* the membership cache, the per-(user, chat) status row and the delayed   *)
(* message deletions, as they are written in src/bot.                      *)
(***************************************************************************)
EXTENDS Integers, Sequences, FiniteSets, TLC

\* ------------------------------------------------------------------ bounds
MaxMsgs == 4
MaxPress == 1
MaxEnv == 3
MaxStarts == 1
MaxGateMsgs == 2
MaxTail == 3

\* ------------------------------------------------------- program constants
max_subscription_fails == 3
subscription_mute_minutes == 30
SUBSCRIPTION_CACHE_TTL == 86400
WarningDeleteDelay == 15
EditedPromptDeleteDelay == 15
MuteNoticeDeleteDelay == 10
SuccessNoticeDeleteDelay == 3
NULL == 0
JoinChallengeTimeout == 60
CaptchaRestrictMinutes == 60
max_attempts == 2
attempt_delay_seconds == 2
\* callbacks.py:152 asks for 0.1 s: less than one reading of the clock.
ImmediateDeleteDelay == 0
\* _schedule_cache_cleanup sleeps six hours between sweeps.
SweepInterval == 21600
\* schedule_daily_cache_update runs at 5:00 and waits an hour after a failure.
DailyHour == 5
SchedulerBackoff == 3600
Day == 86400
\* user_cleanup_service.py:19-20.
USER_CHECK_BATCH_SIZE == 3000
MAX_DELETIONS_PER_RUN == 100

Channels == {1, 2}
\* The user the controls name, and somebody else in the chat.
Users == {"user", "other"}
\* The CaptchaService given to the handlers by the dispatcher
\* (__main__.py:183-189) and the one created in bot_instance.py:37.
Instances == {"dispatcher", "module"}
Workers == {1, 2}
Replies == {"ok", "user_not_found", "chat_not_found", "chat_unavailable", "other_error"}
\* The clock is read in steps of one cache lifetime, which is also one day of
\* granted access and longer than every mute and every deletion delay.
Delays == {SUBSCRIPTION_CACHE_TTL}

VARIABLES
    now,            \* time.time(), in seconds
    envSteps,       \* membership changes, grants and clock steps so far
    member,         \* platform: is the user a member of channel ch
    restrictedUntil,\* platform: the user cannot send before this time (0: free)
    chat,           \* the chats row: is_activated, setup_complete and the two switches
    isAdmin,        \* is_admin(bot, chat, user)
    linked,         \* chat_channel_links of the chat, in query order
    rec,            \* the users_status_in_chats row of (user, chat)
    cache,          \* _subscription_cache for the user
    inbox,          \* user messages delivered to the bot, not yet handled
    posted,         \* user messages posted so far
    presses,        \* presses of "I subscribed" so far
    botMsgs,        \* live bot messages in the chat: {[mid, kind]}
    nextMid,        \* message ids handed out so far
    tasks,          \* sleeping _delete_message_after_delay tasks
    pc,             \* where each update-handling task is
    loc,            \* its local variables and what it has done so far
    fails,          \* failing evaluations counted since the count was last reset
    registry,       \* _captcha_cleanup_tasks of each CaptchaService instance: keys held
    cleanups,       \* the cleanup task created for each challenge message
    join,           \* what on_user_join_entry has done so far
    storeOp,        \* the last operation of an admin or a job on the store
    sweep,          \* the task running _schedule_cache_cleanup
    daily,          \* the task running schedule_daily_cache_update
    warm,           \* the run of update_all_subscriptions_cache in progress
    peerCache,      \* _subscription_cache for the other user of the chat
    probe,          \* the last call of check_single_channel made on its own
    got,            \* what the last read of the membership cache returned
    accounts,       \* get_chat's answer for each stored user, in last_seen order
    cleaned,        \* what the last run of the user cleanup checked and deleted
    editor,         \* the channel editor of the setup dialogue (FSM data)
    written         \* the last set_subscription_cache call made on its own, per channel

vars == <<now, envSteps, member, restrictedUntil, chat, isAdmin, linked, rec, cache,
          inbox, posted, presses, botMsgs, nextMid, tasks, pc, loc, fails,
          registry, cleanups, join, storeOp, sweep, daily, warm, peerCache, probe,
          got, accounts, cleaned, editor, written>>

cfgVars == <<chat, isAdmin, linked>>
gateVars == <<registry, cleanups, join>>
jobVars == <<sweep, daily, warm, peerCache, probe>>
auxVars == <<got, accounts, cleaned, editor, written>>
sideVars == <<storeOp, jobVars, auxVars>>
clockVars == <<now>>
msgVars == <<botMsgs, nextMid, tasks>>

\* What the last run of on_user_join_entry did: whether a challenge was
\* due, whether it issued one, whether it ended with an exception.
NoJoin == [handled |-> FALSE, due |-> FALSE, challenged |-> FALSE, raised |-> FALSE]

\* ------------------------------------------------------------ the store row
NoRow ==
    [exists |-> FALSE, captcha_passed |-> FALSE, subscription_fail_count |-> 0,
     ban_until_ts |-> NULL, ban_reason |-> "NULL", granted_access_until_ts |-> NULL]

\* An UPDATE without the INSERT that creates a missing row.
update_sub_fail_count_no_insert(r, new_count) ==
    IF r.exists THEN [r EXCEPT !.subscription_fail_count = new_count] ELSE r

\* database.py:925-942: the users and chats rows are made sure of, then the
\* status row is inserted or, if there is one, its count is updated.
update_sub_fail_count(r, new_count) ==
    [r EXCEPT !.exists = TRUE, !.subscription_fail_count = new_count]

\* A reset that does not reach the row.
reset_sub_fail_count_skipped(r) == r

reset_sub_fail_count(r) ==
    IF r.exists THEN [r EXCEPT !.subscription_fail_count = 0] ELSE r

update_user_ban_status(r, ban_until) ==
    [r EXCEPT !.exists = TRUE, !.ban_until_ts = ban_until]

\* A clear that leaves the ban in the row.
clear_user_ban_status_kept(r) == r

clear_user_ban_status(r) ==
    IF r.exists THEN [r EXCEPT !.ban_until_ts = NULL, !.ban_reason = "NULL"] ELSE r

update_user_granted_access(r, access_until_ts) ==
    [r EXCEPT !.exists = TRUE, !.granted_access_until_ts = access_until_ts]

\* ---------------------------------------------------------------- the cache
NoEntry == [present |-> FALSE, result |-> FALSE, timestamp |-> 0]

\* A read that still serves an entry at the very end of its lifetime.
get_cached_subscription_inclusive(c, ch, t) ==
    IF c[ch].present /\ t - c[ch].timestamp <= SUBSCRIPTION_CACHE_TTL
    THEN <<TRUE, c[ch].result>>
    ELSE <<FALSE, FALSE>>

\* subscription.py:91-107.
get_cached_subscription(c, ch, t) ==
    IF c[ch].present /\ t - c[ch].timestamp < SUBSCRIPTION_CACHE_TTL
    THEN <<TRUE, c[ch].result>>
    ELSE <<FALSE, FALSE>>

set_subscription_cache(c, ch, is_member, t) ==
    [c EXCEPT ![ch] = [present |-> TRUE, result |-> is_member, timestamp |-> t]]

\* A query that answers from a fresh cache entry instead of asking the platform.
check_single_channel_cache_read(c, ch, reply, is_member, t) ==
    IF get_cached_subscription(c, ch, t)[1]
    THEN [status |-> IF get_cached_subscription(c, ch, t)[2] THEN "member" ELSE "left",
          cache |-> c, called |-> FALSE]
    ELSE CASE reply = "ok" ->
                 [status |-> IF is_member THEN "member" ELSE "left",
                  cache |-> set_subscription_cache(c, ch, is_member, t), called |-> TRUE]
           [] reply = "user_not_found" ->
                 [status |-> "left", cache |-> set_subscription_cache(c, ch, FALSE, t),
                  called |-> TRUE]
           [] reply = "chat_not_found" ->
                 [status |-> "None", cache |-> c, called |-> TRUE]
           [] reply = "chat_unavailable" ->
                 [status |-> "left", cache |-> c, called |-> TRUE]
           [] OTHER ->
                 [status |-> "left", cache |-> set_subscription_cache(c, ch, FALSE, t),
                  called |-> TRUE]

\* One membership query: the status returned to check_subscription and the
\* cache after it.  The cache is not read: the read is commented out.
check_single_channel(c, ch, reply, is_member, t) ==
    CASE reply = "ok" ->
            [status |-> IF is_member THEN "member" ELSE "left",
             cache |-> set_subscription_cache(c, ch, is_member, t), called |-> TRUE]
      [] reply = "user_not_found" ->
            [status |-> "left", cache |-> set_subscription_cache(c, ch, FALSE, t), called |-> TRUE]
      [] reply = "chat_not_found" ->
            [status |-> "None", cache |-> c, called |-> TRUE]
      [] reply = "chat_unavailable" ->
            [status |-> "left", cache |-> c, called |-> TRUE]
      [] OTHER ->
            [status |-> "left", cache |-> set_subscription_cache(c, ch, FALSE, t), called |-> TRUE]

\* check_subscription over linked[i..]: the cache after all queries, the
\* ordered list of channels the user is not subscribed to, the channels queried.
RECURSIVE check_subscription(_, _, _, _, _, _)
check_subscription(i, chans, c, replies, mem, t) ==
    IF i > Len(chans)
    THEN [cache |-> c, unsub |-> <<>>, queried |-> {}]
    ELSE LET ch == chans[i]
             one == check_single_channel(c, ch, replies[ch], mem[ch], t)
             rest == check_subscription(i + 1, chans, one.cache, replies, mem, t)
         IN [cache |-> rest.cache,
             unsub |-> IF one.status = "member" THEN rest.unsub ELSE <<ch>> \o rest.unsub,
             queried |-> IF one.called THEN {ch} \cup rest.queried ELSE rest.queried]

\* ----------------------------------------------------------- task-local state
NoLoc ==
    [kind |-> "none", force |-> FALSE, snap |-> NoRow, t_begin |-> 0, mid |-> 0,
     eligible |-> FALSE, granted |-> NULL, result |-> "none", unsub |-> <<>>, queried |-> {}, fresh |-> {}, answered |-> {},
     n |-> 0, ord |-> 0, ok |-> TRUE, wasMuted |-> FALSE, mute_until |-> 0,
     deleted |-> 0, warned |-> 0, restricted |-> 0, noticed |-> 0, edited |-> 0,
     writes |-> 0, stored |-> TRUE, by |-> "none",
     sender |-> "none", sender_chat |-> FALSE, settings_read |-> FALSE,
     status_read |-> FALSE, admin_checked |-> FALSE, banned |-> FALSE,
     mute_refused |-> FALSE]

\* The handler returns: its locals are gone, what it did stays on record.
Returned(l) == [l EXCEPT !.snap = NoRow, !.unsub = <<>>]

Range(s) == {s[i] : i \in 1..Len(s)}

RemoveAt(s, i) == SubSeq(s, 1, i - 1) \o SubSeq(s, i + 1, Len(s))

PendingFor(ts, mid) == Cardinality({i \in 1..Len(ts) : ts[i].mid = mid})

\* An eligibility test that forgets the admin exemption.
subscription_check_applies_to_admins(settings, is_user_admin, linked_channels) ==
    /\ settings.is_activated
    /\ settings.subscription_check_enabled
    /\ Len(linked_channels) > 0

\* group_messages.py:101-139: the chat is activated, the check is enabled,
\* the user is no admin and at least one channel is linked.
subscription_check_applies(settings, is_user_admin, linked_channels) ==
    /\ settings.is_activated
    /\ settings.subscription_check_enabled
    /\ ~is_user_admin
    /\ Len(linked_channels) > 0

\* An exemption check that never exempts.
access_granted_ignored(granted_access_until, current_time) == FALSE

\* group_messages.py:145: the manual exemption is in force.
access_granted(granted_access_until, current_time) ==
    granted_access_until # NULL /\ granted_access_until > current_time

\* group_messages.py:184: the row shows an active mute for subscription.
muted_for_subscription(s, current_time) ==
    /\ s.ban_until_ts # NULL
    /\ s.ban_until_ts > current_time
    /\ s.ban_reason = "subscription_check"

\* subscription.py:672: the count the failing evaluation works with.
new_sub_fail_count(current_sub_fail_count) == current_sub_fail_count + 1

\* A branch choice that warns at every failure before the last.
failure_branch_warn_each(n, max_fails_allowed) ==
    IF n < max_fails_allowed THEN "first" ELSE "last"

\* A branch choice that mutes one failure late.
failure_branch_late(n, max_fails_allowed) ==
    IF n = 1 THEN "first"
    ELSE IF 1 < n /\ n <= max_fails_allowed THEN "intermediate"
    ELSE "last"

\* subscription.py:686-712: which branch a failing evaluation takes.
failure_branch(n, max_fails_allowed) ==
    IF n = 1 THEN "first"
    ELSE IF 1 < n /\ n < max_fails_allowed THEN "intermediate"
    ELSE IF n >= max_fails_allowed THEN "last"
    ELSE "none"

\* A lift that flips the restriction instead of superseding it.
unban_user_for_subscription_toggle(r, restricted, restrictOk) ==
    [restrictedUntil |-> IF restricted = 0 THEN 1 ELSE 0,
     rec |-> reset_sub_fail_count(clear_user_ban_status(r)),
     raised |-> FALSE]

\* subscription.py:806-833: lift the restriction with until_date = 0, clear
\* the ban, reset the count.  A refusal of the platform and an error of the
\* store are logged; nothing is raised to the caller.
unban_user_for_subscription(r, restricted, restrictOk) ==
    [restrictedUntil |-> IF restrictOk THEN 0 ELSE restricted,
     rec |-> reset_sub_fail_count(clear_user_ban_status(r)),
     raised |-> FALSE]

\* callbacks.py:97-131: the lift after a passed captcha.  The ban is
\* cleared inside the same try, after the platform call; every exception
\* is logged and not raised.
lift_after_captcha(r, restricted, restrictOk) ==
    [restrictedUntil |-> IF restrictOk THEN 0 ELSE restricted,
     rec |-> IF restrictOk THEN clear_user_ban_status(r) ELSE r,
     raised |-> FALSE]

\* asyncio.create_task(self._delete_message_after_delay(chat, mid, delay))
schedule_delete(ts, mid, delay, t) == Append(ts, [mid |-> mid, fires_at |-> t + delay])

\* No run of the warm-up yet: position (u, c) in users x channels, the
\* queries made and whether each found the channel gone, the users found to
\* be people.
NoWarm == [u |-> 0, c |-> 0, log |-> <<>>, probed |-> {}, done |-> FALSE]
NoProbe == [n |-> 0, ch |-> 0, reply |-> "none", status |-> "none"]

\* The next 5:00 seen from t: today's if still ahead, else tomorrow's.
next_run_target(t) ==
    LET today == (t \div Day) * Day + DailyHour * 60 * 60
    IN  IF t >= today THEN today + Day ELSE today

\* The last operation of an admin or of a job on the store, and the status
\* row as it was just before it.
NoStoreOp == [op |-> "none", before |-> NoRow]

\* No read of the cache yet.
NoGot == [n |-> 0, ch |-> 0, at |-> 0, is_cached |-> FALSE, is_member |-> FALSE]

\* No run of the user cleanup yet.
NoRun == [running |-> FALSE, ran |-> FALSE, candidates |-> <<>>, checked |-> 0,
          deleted |-> {}]

\* The channel editor is closed.
NoEditor == [open |-> FALSE, current_channels |-> <<>>, outcome |-> "none",
             added |-> {}, removed |-> {}]

\* SubscriptionService.__init__ creates both loops; nothing was deleted yet.
InitJobs ==
    /\ storeOp = NoStoreOp
    /\ sweep = [state |-> "sleeping", wakes_at |-> SweepInterval, runs |-> 0, failed |-> 0]
    /\ daily = [state |-> "waiting", wakes_at |-> next_run_target(0), runs |-> 0, failed |-> 0]
    /\ warm = NoWarm
    /\ peerCache = [ch \in Channels |-> NoEntry]
    /\ probe = NoProbe

InitAux ==
    /\ got = NoGot
    /\ cleaned = NoRun
    /\ editor = NoEditor
    /\ written = [ch \in Channels |-> NoEntry]

InitSide ==
    /\ InitJobs
    /\ InitAux
    /\ accounts = <<>>

InitMain ==
    /\ now = 0
    /\ envSteps = 0
    /\ member = [ch \in Channels |-> FALSE]
    /\ restrictedUntil = 0
    /\ chat = [is_activated |-> TRUE, subscription_check_enabled |-> TRUE,
               captcha_enabled |-> TRUE, setup_complete |-> TRUE]
    /\ isAdmin = FALSE
    /\ linked = <<1, 2>>
    /\ rec = NoRow
    /\ cache = [ch \in Channels |-> NoEntry]
    /\ inbox = 0
    /\ posted = 0
    /\ presses = 0
    /\ botMsgs = {}
    /\ nextMid = 0
    /\ tasks = <<>>
    /\ pc = [h \in Workers |-> "idle"]
    /\ loc = [h \in Workers |-> NoLoc]
    /\ fails = 0
    /\ registry = [inst \in Instances |-> {}]
    /\ cleanups = <<>>
    /\ join = NoJoin

Init ==
    /\ InitMain
    /\ InitSide

\* ------------------------------------------------------------ the environment
\* The user posts a message in the group; a muted user cannot.
Post ==
    /\ posted < MaxMsgs
    /\ restrictedUntil <= now
    /\ posted' = posted + 1
    /\ inbox' = inbox + 1
    /\ UNCHANGED <<clockVars, envSteps, member, restrictedUntil, cfgVars, sideVars, gateVars, rec, cache,
                   presses, msgVars, pc, loc, fails>>

\* The user joins or leaves a channel.
SetMembership(ch, v) ==
    /\ envSteps < MaxEnv
    /\ member[ch] # v
    /\ member' = [member EXCEPT ![ch] = v]
    /\ envSteps' = envSteps + 1
    /\ UNCHANGED <<clockVars, restrictedUntil, cfgVars, sideVars, gateVars, rec, cache, inbox, posted,
                   presses, msgVars, pc, loc, fails>>

Tick(d) ==
    /\ envSteps < MaxEnv
    /\ now' = now + d
    /\ envSteps' = envSteps + 1
    /\ UNCHANGED <<member, restrictedUntil, cfgVars, sideVars, gateVars, rec, cache, inbox, posted,
                   presses, msgVars, pc, loc, fails>>

\* admin.py handle_owner_days_input: the owner grants special access for `days`.
OwnerGrantsAccess(days) ==
    /\ envSteps < MaxEnv
    /\ envSteps' = envSteps + 1
    /\ LET access_until_ts == IF days > 0 THEN now + days * 24 * 60 * 60 ELSE NULL
       IN rec' = update_user_granted_access(rec, access_until_ts)
    /\ UNCHANGED <<clockVars, member, restrictedUntil, cfgVars, sideVars, gateVars, cache, inbox, posted,
                   presses, msgVars, pc, loc, fails>>

\* ------------------------------------------------- handle_group_message
\* group_messages.py:86-98: a message without sender, from a bot account or
\* from the service account 777000 is dropped before anything is read.
sender_is_screened(sender) == sender \in {"none", "bot", "service"}

\* The senders a message can show in from_user: nobody, a bot account, the
\* service account, the user.
Senders == {"none", "bot", "service", "user"}

\* group_messages.py:83-145: screen the sender, read the settings and, in an
\* activated chat, the status row and the admin status; decide whether the
\* subscription check applies.  The caller says where the message came from.
handle_group_message(h, sender, sender_chat) ==
    /\ pc[h] = "idle"
    /\ LET eligible == subscription_check_applies(chat, isAdmin, linked)
           exempt == access_granted(rec.granted_access_until_ts, now)
           seen == [NoLoc EXCEPT !.kind = "msg", !.sender = sender,
                                 !.sender_chat = sender_chat, !.t_begin = now]
           l == [seen EXCEPT !.snap = rec,
                             !.eligible = eligible,
                             !.granted = rec.granted_access_until_ts,
                             !.settings_read = TRUE,
                             !.status_read = chat.is_activated,
                             !.admin_checked = chat.is_activated,
                             !.banned = chat.is_activated /\ rec.ban_until_ts > now]
           goes_on == ~sender_is_screened(sender) /\ eligible /\ ~exempt
       IN /\ loc' = [loc EXCEPT ![h] = IF sender_is_screened(sender) THEN seen
                                       ELSE IF goes_on THEN l ELSE Returned(l)]
          /\ pc' = [pc EXCEPT ![h] = IF goes_on THEN "check" ELSE "done"]
    /\ UNCHANGED <<clockVars, envSteps, member, restrictedUntil, cfgVars, sideVars, gateVars, rec, cache,
                   presses, msgVars, fails>>

\* A message the user posted is taken from the queue.
HandleGroupMessageBegin(h) ==
    /\ inbox > 0
    /\ inbox' = inbox - 1
    /\ handle_group_message(h, "user", FALSE)
    /\ UNCHANGED posted

\* A message that is not an ordinary post of the user arrives and is
\* handled: from a bot, from the service account, without sender, or sent
\* on behalf of a channel (sender_chat set).
HandleOtherMessage(h, sender, sender_chat) ==
    /\ posted < MaxMsgs
    /\ sender # "user" \/ sender_chat
    /\ posted' = posted + 1
    /\ handle_group_message(h, sender, sender_chat)
    /\ UNCHANGED inbox

\* check_subscription: one query per linked channel, results written to the cache.
CheckSubscription(h, R) ==
    /\ pc[h] = "check"
    /\ \E replies \in [Channels -> R] :
         LET res == check_subscription(1, linked, cache, replies, member, now)
             is_subscribed == res.unsub = <<>>
         IN /\ cache' = res.cache
            /\ loc' = [loc EXCEPT
                         ![h].unsub = res.unsub,
                         ![h].result = IF is_subscribed THEN "subscribed" ELSE "failed",
                         ![h].queried = res.queried,
                         ![h].fresh = {ch \in Range(linked) :
                                          get_cached_subscription(cache, ch, now)[1]},
                         ![h].answered = {ch \in res.queried : replies[ch] = "ok"},
                         ![h].ok = @ /\ \A ch \in Range(linked) : replies[ch] = "ok"]
            /\ pc' = [pc EXCEPT ![h] =
                         IF loc[h].force
                         THEN IF is_subscribed THEN "press_ok" ELSE "press_fail"
                         ELSE IF is_subscribed THEN "subscribed" ELSE "fail_update"]
    /\ UNCHANGED <<clockVars, envSteps, member, restrictedUntil, cfgVars, sideVars, gateVars, rec, inbox, posted,
                   presses, msgVars, fails>>

\* subscription.py:671-682: write snapshot + 1 as the new fail count.
UpdateFailCount(h, Oks) ==
    /\ pc[h] = "fail_update"
    /\ \E storeOk \in Oks :
         LET n == new_sub_fail_count(loc[h].snap.subscription_fail_count)
         IN /\ rec' = IF storeOk THEN update_sub_fail_count(rec, n) ELSE rec
            /\ loc' = [loc EXCEPT ![h].n = n, ![h].ord = fails + 1,
                                  ![h].ok = @ /\ storeOk, ![h].writes = @ + 1,
                                  ![h].stored = storeOk]
    /\ fails' = fails + 1
    /\ pc' = [pc EXCEPT ![h] = "branch"]
    /\ UNCHANGED <<clockVars, envSteps, member, restrictedUntil, cfgVars, sideVars, gateVars, cache, inbox, posted,
                   presses, msgVars>>

\* subscription.py:685-788: warn, delete only, or mute.
FailureBranch(h, Oks) ==
    /\ pc[h] = "branch"
    /\ \E delOk \in Oks, sendOk \in Oks, restrictOk \in Oks :
         LET br == failure_branch(loc[h].n, max_subscription_fails)
             mute_until_ts == now + subscription_mute_minutes * 60
             mid == nextMid + 1
             del == IF delOk /\ br # "none" THEN 1 ELSE 0
         IN CASE br = "first" ->
                   /\ botMsgs' = IF sendOk THEN botMsgs \cup {[mid |-> mid, kind |-> "prompt"]}
                                 ELSE botMsgs
                   /\ nextMid' = IF sendOk THEN mid ELSE nextMid
                   /\ tasks' = IF sendOk
                               THEN schedule_delete(tasks, mid, WarningDeleteDelay, now)
                               ELSE tasks
                   /\ loc' = [loc EXCEPT ![h] = Returned([loc[h] EXCEPT !.deleted = del,
                                         !.warned = IF sendOk THEN 1 ELSE 0,
                                         !.ok = @ /\ delOk /\ sendOk])]
                   /\ UNCHANGED <<rec, restrictedUntil, fails>>
              [] br = "last" /\ restrictOk ->
                   /\ restrictedUntil' = mute_until_ts
                   /\ rec' = reset_sub_fail_count(update_user_ban_status(rec, mute_until_ts))
                   /\ fails' = 0
                   /\ botMsgs' = IF sendOk THEN botMsgs \cup {[mid |-> mid, kind |-> "notice"]}
                                 ELSE botMsgs
                   /\ nextMid' = IF sendOk THEN mid ELSE nextMid
                   /\ tasks' = IF sendOk
                               THEN schedule_delete(tasks, mid, MuteNoticeDeleteDelay, now)
                               ELSE tasks
                   /\ loc' = [loc EXCEPT ![h] = Returned([loc[h] EXCEPT !.deleted = del, !.restricted = 1,
                                         !.mute_until = mute_until_ts,
                                         !.noticed = IF sendOk THEN 1 ELSE 0,
                                         !.writes = @ + 2,
                                         !.ok = @ /\ delOk /\ sendOk])]
              [] OTHER ->
                   /\ loc' = [loc EXCEPT ![h] = Returned([loc[h] EXCEPT !.deleted = del,
                                         !.mute_refused = (br = "last"),
                                         !.ok = @ /\ delOk /\ (br = "last" => restrictOk)])]
                   /\ UNCHANGED <<rec, restrictedUntil, fails, msgVars>>
    /\ pc' = [pc EXCEPT ![h] = "done"]
    /\ UNCHANGED <<clockVars, envSteps, member, cfgVars, sideVars, gateVars, cache, inbox, posted, presses>>

\* group_messages.py:171-186: the user is subscribed to everything.
SubscribedBranch(h, Oks) ==
    /\ pc[h] = "subscribed"
    /\ \E restrictOk \in Oks :
         LET s == loc[h].snap
             doReset == s.subscription_fail_count > 0
             r1 == IF doReset THEN reset_sub_fail_count(rec) ELSE rec
             muted == muted_for_subscription(s, loc[h].t_begin)
             un == unban_user_for_subscription(r1, restrictedUntil, restrictOk)
         IN /\ rec' = IF muted THEN un.rec ELSE r1
            /\ restrictedUntil' = IF muted THEN un.restrictedUntil ELSE restrictedUntil
            /\ fails' = IF doReset \/ muted THEN 0 ELSE fails
            /\ loc' = [loc EXCEPT ![h] = Returned([loc[h] EXCEPT !.writes = @ + (IF doReset THEN 1 ELSE 0)
                                                  + (IF muted THEN 2 ELSE 0),
                                  !.ok = @ /\ (muted => restrictOk)])]
    /\ pc' = [pc EXCEPT ![h] = "done"]
    /\ UNCHANGED <<clockVars, envSteps, member, cfgVars, sideVars, gateVars, cache, inbox, posted, presses, msgVars>>

\* ------------------------------------------- the "I subscribed" callback
\* callbacks.py:187-219 and subscription.py:405-423: the named user presses
\* the button of a live prompt.
SubcheckCallbackBegin(h, m) ==
    /\ pc[h] = "idle"
    /\ presses < MaxPress
    /\ m \in botMsgs
    /\ m.kind = "prompt"
    /\ presses' = presses + 1
    /\ loc' = [loc EXCEPT ![h] = [NoLoc EXCEPT !.kind = "press", !.force = TRUE,
                                               !.snap = rec, !.t_begin = now, !.mid = m.mid,
                                               !.eligible = TRUE,
                                               !.wasMuted = rec.ban_until_ts > now
                                                            /\ restrictedUntil > now]]
    /\ pc' = [pc EXCEPT ![h] = "check"]
    /\ UNCHANGED <<clockVars, envSteps, member, restrictedUntil, cfgVars, sideVars, gateVars, rec, cache, inbox,
                   posted, msgVars, fails>>

\* subscription.py:425-454: the forced check succeeded.
SubcheckSuccess(h, Oks) ==
    /\ pc[h] = "press_ok"
    /\ \E delOk \in Oks, sendOk \in Oks, restrictOk \in Oks :
         LET prompt == {m \in botMsgs : m.mid = loc[h].mid}
             mid == nextMid + 1
             kept == IF delOk THEN botMsgs \ prompt ELSE botMsgs
             un == unban_user_for_subscription(reset_sub_fail_count(rec),
                                               restrictedUntil, restrictOk)
         IN /\ botMsgs' = IF sendOk THEN kept \cup {[mid |-> mid, kind |-> "confirm"]} ELSE kept
            /\ nextMid' = IF sendOk THEN mid ELSE nextMid
            /\ tasks' = IF sendOk
                        THEN schedule_delete(tasks, mid, SuccessNoticeDeleteDelay, now)
                        ELSE tasks
            /\ rec' = un.rec
            /\ restrictedUntil' = un.restrictedUntil
            /\ loc' = [loc EXCEPT ![h] = Returned([loc[h] EXCEPT !.deleted = IF delOk /\ prompt # {} THEN 1 ELSE 0,
                                  !.noticed = IF sendOk THEN 1 ELSE 0,
                                  !.writes = @ + 3,
                                  !.ok = @ /\ delOk /\ sendOk /\ restrictOk])]
    /\ fails' = 0
    /\ pc' = [pc EXCEPT ![h] = "done"]
    /\ UNCHANGED <<clockVars, envSteps, member, cfgVars, sideVars, gateVars, cache, inbox, posted, presses>>

\* subscription.py:456-541: the forced check failed: edit the prompt, schedule
\* its deletion.
SubcheckFailure(h, Oks) ==
    /\ pc[h] = "press_fail"
    /\ \E editOk \in Oks :
         LET live == \E m \in botMsgs : m.mid = loc[h].mid
             edited == editOk /\ live
         IN /\ tasks' = IF edited
                        THEN schedule_delete(tasks, loc[h].mid, EditedPromptDeleteDelay, now)
                        ELSE tasks
            /\ loc' = [loc EXCEPT ![h] = Returned([loc[h] EXCEPT !.edited = IF edited THEN 1 ELSE 0,
                                  !.ok = @ /\ edited])]
    /\ pc' = [pc EXCEPT ![h] = "done"]
    /\ UNCHANGED <<clockVars, envSteps, member, restrictedUntil, cfgVars, sideVars, gateVars, rec, cache, inbox,
                   posted, presses, botMsgs, nextMid, fails>>

\* subscription.py:790-804: a sleeping deletion wakes up and deletes its message.
DeleteMessageAfterDelay(i, Oks) ==
    /\ i \in 1..Len(tasks)
    /\ tasks[i].fires_at <= now
    /\ tasks' = RemoveAt(tasks, i)
    /\ \E delOk \in Oks :
         botMsgs' = IF delOk THEN {m \in botMsgs : m.mid # tasks[i].mid} ELSE botMsgs
    /\ UNCHANGED <<clockVars, envSteps, member, restrictedUntil, cfgVars, sideVars, gateVars, rec, cache, inbox,
                   posted, presses, nextMid, pc, loc, fails>>

\* ------------------------------------------------------ the admission gate
\* database.py:696-708: upsert of captcha_passed.
update_user_captcha_status(r, passed) ==
    [r EXCEPT !.exists = TRUE, !.captcha_passed = passed]

\* A control that anybody may press.
control_is_for_anybody(presser, target_user) == TRUE

\* callbacks.py:86 and callbacks.py:206: the control answers only to the
\* user whose id its callback data carries.
control_is_for(presser, target_user) == presser = target_user

\* What a Python call does with keyword arguments: it binds when every
\* required parameter is given and no unknown keyword is passed, and raises
\* TypeError otherwise.
call_binds(keywords, required, optional) ==
    /\ required \subseteq keywords
    /\ keywords \subseteq (required \cup optional)

\* captcha.py:194: start_captcha_for_user(self, bot, chat_id, user_id,
\* user_name, chat_title=None).
StartCaptchaRequired == {"bot", "chat_id", "user_id", "user_name"}
StartCaptchaOptional == {"chat_title"}
\* group_messages.py:484: the keywords on_user_join_entry passes.
JoinCallKeywords == {"chat", "user", "message_id_to_reply"}

\* database.py:149: rows are aiosqlite.Row objects, which offer keys() and
\* indexing; an attribute outside this set raises AttributeError.
RowAttributes == {"keys", "__getitem__", "__len__", "__iter__"}

\* The answers of delete_message to a cleanup.
DeleteReplies == {"ok", "not_found", "cant_delete", "api_error", "unexpected"}

\* captcha.py:129-140: the outcomes after which the cleanup stops trying.
delete_counts_as_done(reply) == reply \in {"ok", "not_found", "cant_delete"}

\* A cleanup that leaves its entry behind.
registry_after_fire_kept(held, key) == held

\* captcha.py:157-160: the finally clause of a fired cleanup.
registry_after_fire(held, key) == held \ {key}

\* A start that creates the cleanup task without storing it.
registry_after_start_unregistered(held, key) == held

\* captcha.py:232-239: the task created for the key is stored under it.
registry_after_start(held, key) == held \cup {key}

\* A restriction the platform treats as permanent: more than 366 days ahead.
captcha_until_date_forever(t) == t + 400 * 24 * 60 * 60

\* captcha.py:256: until_date of the restriction that goes with a challenge.
captcha_until_date(t) == t + CaptchaRestrictMinutes * 60

Live(m) == m \in DOMAIN cleanups /\ cleanups[m].state \in {"sleeping", "retry"}

Challenges == {m \in botMsgs : m.kind = "challenge"}

\* captcha.py:194-262: send the challenge, register its cleanup 60 s ahead,
\* restrict the user for an hour.  The key is the id of the message just
\* sent, so the registration at 232-239 (cancel the task the key holds,
\* then store the new one) replaces whatever the key held.  The caller says
\* what becomes of `join` and `envSteps`.
start_captcha_for_user(inst, Oks) ==
    /\ Cardinality(DOMAIN cleanups) < MaxStarts
    /\ chat.is_activated
    /\ ~rec.captcha_passed
    /\ \E sendOk \in Oks, restrictOk \in Oks :
         LET mid == nextMid + 1
         IN IF sendOk
            THEN /\ botMsgs' = botMsgs \cup {[mid |-> mid, kind |-> "challenge"]}
                 /\ nextMid' = mid
                 /\ registry' = [registry EXCEPT ![inst] = registry_after_start(@, mid)]
                 /\ cleanups' = (mid :> [owner |-> inst, state |-> "sleeping",
                                         fires_at |-> now + JoinChallengeTimeout,
                                         attempts |-> 0, removals |-> 0,
                                         pressed |-> FALSE, started |-> now,
                                         last |-> "none"]) @@ cleanups
                 /\ restrictedUntil' = IF restrictOk THEN captcha_until_date(now)
                                       ELSE restrictedUntil
            ELSE UNCHANGED <<botMsgs, nextMid, registry, cleanups, restrictedUntil>>
    /\ UNCHANGED <<clockVars, member, cfgVars, sideVars, rec, cache, inbox, posted, presses,
                   tasks, pc, loc, fails>>

\* The service method called as it is declared, on the instance the
\* dispatcher hands to the handlers.
StartCaptchaForUser(Oks) ==
    /\ start_captcha_for_user("dispatcher", Oks)
    /\ UNCHANGED <<envSteps, join>>

\* group_messages.py:318-521: a chat-member update for the user.
\* With the captcha switched off (485-498) the handler reads the status row
\* and means to mark a user who never passed as passed; it asks the row for
\* .get, as the branch for a switched-on captcha does.
OnUserJoinEntry(old_status, Oks) ==
    /\ envSteps < MaxEnv
    /\ envSteps' = envSteps + 1
    /\ LET gated == chat.is_activated /\ ~isAdmin
           due == /\ gated /\ chat.captcha_enabled
                  /\ ~rec.captcha_passed
                  /\ old_status # "restricted"
           reads_row == gated
           attribute_error == reads_row /\ rec.exists /\ "get" \notin RowAttributes
           calls == due /\ ~attribute_error
           type_error == calls /\ ~call_binds(JoinCallKeywords, StartCaptchaRequired,
                                              StartCaptchaOptional)
           marks_passed == /\ gated /\ ~chat.captcha_enabled
                           /\ ~attribute_error
                           /\ rec.exists /\ ~rec.captcha_passed
           j == [handled |-> TRUE, due |-> due, challenged |-> FALSE,
                 raised |-> attribute_error \/ type_error]
       IN IF calls /\ ~type_error
          THEN /\ start_captcha_for_user("dispatcher", Oks)
               /\ join' = [j EXCEPT !.challenged = TRUE]
          ELSE /\ join' = j
               /\ rec' = IF marks_passed THEN update_user_captcha_status(rec, TRUE) ELSE rec
               /\ UNCHANGED <<clockVars, member, restrictedUntil, cfgVars, sideVars,
                              cache, inbox, posted, presses, msgVars, pc, loc, fails,
                              registry, cleanups>>

\* captcha.py:114-162: a cleanup whose sleep is over tries to delete the
\* challenge; after an error other than "already gone" it sleeps 2 s and
\* tries once more; in the end it takes its key out of the registry.
CaptchaCleanupAttempt(m, reply) ==
    /\ Live(m)
    /\ cleanups[m].fires_at <= now
    /\ (reply = "not_found") <=> (\A b \in botMsgs : b.mid # m)
    /\ LET t == cleanups[m]
           over == delete_counts_as_done(reply) \/ t.attempts + 1 >= max_attempts
           held == registry[t.owner]
           after == registry_after_fire(held, m)
       IN /\ botMsgs' = IF reply = "ok" THEN {b \in botMsgs : b.mid # m} ELSE botMsgs
          /\ registry' = IF over THEN [registry EXCEPT ![t.owner] = after] ELSE registry
          /\ cleanups' = [cleanups EXCEPT ![m] =
                 [t EXCEPT !.attempts = @ + 1,
                           !.last = reply,
                           !.state = IF over THEN "finished" ELSE "retry",
                           !.fires_at = IF over THEN @ ELSE now + attempt_delay_seconds,
                           !.removals = @ + (IF over /\ after # held THEN 1 ELSE 0)]]
    /\ UNCHANGED <<clockVars, envSteps, member, restrictedUntil, cfgVars, sideVars, rec, cache, inbox,
                   posted, presses, nextMid, tasks, pc, loc, fails, join>>

\* callbacks.py:66-158: a press of the challenge control.
HandleCaptchaCallback(h, m, presser, Oks) ==
    /\ pc[h] = "idle"
    /\ presses < MaxPress
    /\ m \in Challenges
    /\ presses' = presses + 1
    /\ pc' = [pc EXCEPT ![h] = "done"]
    /\ IF ~control_is_for(presser, "user")
       THEN /\ loc' = [loc EXCEPT ![h] = [NoLoc EXCEPT !.kind = "captcha_rejected",
                                                       !.mid = m.mid, !.by = presser]]
            /\ UNCHANGED <<rec, restrictedUntil, registry, cleanups, tasks>>
       ELSE \E restrictOk \in Oks :
            LET k == m.mid
                passed == update_user_captcha_status(rec, TRUE)
                lift == lift_after_captcha(passed, restrictedUntil, restrictOk)
                found == k \in registry["module"]
                t == cleanups[k]
            IN /\ rec' = lift.rec
               /\ restrictedUntil' = lift.restrictedUntil
               /\ registry' = IF found THEN [registry EXCEPT !["module"] = @ \ {k}]
                               ELSE registry
               /\ cleanups' = [cleanups EXCEPT ![k] =
                      [t EXCEPT !.state = IF found /\ Live(k) THEN "cancelled" ELSE @,
                                !.pressed = @ \/ (t.state = "sleeping" /\ t.fires_at > now)]]
               /\ tasks' = schedule_delete(tasks, k, ImmediateDeleteDelay, now)
               /\ loc' = [loc EXCEPT ![h] = [NoLoc EXCEPT !.kind = "captcha", !.mid = k,
                                                          !.by = presser]]
    /\ UNCHANGED <<clockVars, envSteps, member, cfgVars, sideVars, cache, inbox, posted, botMsgs,
                   nextMid, fails, join>>

\* callbacks.py:187-210: somebody else presses the user's "I subscribed".
SubcheckCallbackByOther(h, m) ==
    IF control_is_for("other", "user")
    THEN SubcheckCallbackBegin(h, m)
    ELSE /\ pc[h] = "idle"
         /\ presses < MaxPress
         /\ m \in botMsgs
         /\ m.kind = "prompt"
         /\ presses' = presses + 1
         /\ pc' = [pc EXCEPT ![h] = "done"]
         /\ loc' = [loc EXCEPT ![h] = [NoLoc EXCEPT !.kind = "subcheck_rejected",
                                                    !.mid = m.mid, !.by = "other"]]
         /\ UNCHANGED <<clockVars, envSteps, member, restrictedUntil, cfgVars, sideVars, gateVars, rec,
                        cache, inbox, posted, msgVars, fails>>

\* ------------------------------------------------------------ specifications
Accepts == {TRUE}
MayRefuse == BOOLEAN

\* The steps of the group-message handler after its first.
MessageStep(h, R, Oks) ==
    \/ CheckSubscription(h, R)
    \/ UpdateFailCount(h, Oks)
    \/ FailureBranch(h, Oks)
    \/ SubscribedBranch(h, Oks)

\* The steps of the re-check callback after its first.
CallbackStep(h, Oks) ==
    \/ SubcheckSuccess(h, Oks)
    \/ SubcheckFailure(h, Oks)

\* The handler has returned: its locals are gone and the worker is free.
Return(h) ==
    /\ pc[h] = "done"
    /\ pc' = [pc EXCEPT ![h] = "idle"]
    /\ loc' = [loc EXCEPT ![h] = NoLoc]
    /\ UNCHANGED <<clockVars, envSteps, member, restrictedUntil, cfgVars, sideVars, gateVars, rec, cache, inbox,
                   posted, presses, msgVars, fails>>

Idle(h) == pc[h] = "idle"

\* Messages of one user handled as concurrent tasks (aiogram start_polling
\* handles every update in a task of its own).
Next ==
    \/ Post
    \/ \E ch \in Channels, v \in BOOLEAN : SetMembership(ch, v)
    \/ \E h \in Workers : HandleGroupMessageBegin(h)
    \/ \E h \in Workers : MessageStep(h, {"ok"}, Accepts)
    \/ \E h \in Workers : Return(h)

Spec == Init /\ [][Next]_vars

\* Messages and re-check callbacks handled one at a time (spec.md section 5:
\* one logical worker): a handler runs to its end, within one reading of the
\* clock, before the next event is looked at.  Between handlers the user
\* posts, joins and leaves channels, the owner grants access, time passes
\* and sleeping deletions wake up.  The platform and the store accept every
\* call.
NextSeq ==
    \/ Idle(1) /\ Post
    \/ Idle(1) /\ \E ch \in Channels, v \in BOOLEAN : SetMembership(ch, v)
    \/ Idle(1) /\ \E days \in {0, 1} : OwnerGrantsAccess(days)
    \/ Idle(1) /\ \E d \in Delays : Tick(d)
    \/ Idle(1) /\ \E i \in 1..Len(tasks) : DeleteMessageAfterDelay(i, Accepts)
    \/ HandleGroupMessageBegin(1)
    \/ MessageStep(1, {"ok"}, Accepts)
    \/ \E m \in botMsgs : SubcheckCallbackBegin(1, m)
    \/ CallbackStep(1, Accepts)
    \/ Return(1)

SpecSeq == Init /\ [][NextSeq]_vars

\* Any configuration of the chat: activated or not, check enabled or not,
\* user admin or not, channels linked or not.
InitCfg ==
    /\ now = 0
    /\ envSteps = 0
    /\ member = [ch \in Channels |-> FALSE]
    /\ restrictedUntil = 0
    /\ chat \in [is_activated : BOOLEAN, subscription_check_enabled : BOOLEAN,
                  captcha_enabled : {TRUE}, setup_complete : BOOLEAN]
    /\ isAdmin \in BOOLEAN
    /\ linked \in {<<>>, <<1, 2>>}
    /\ rec = NoRow
    /\ cache = [ch \in Channels |-> NoEntry]
    /\ inbox = 0
    /\ posted = 0
    /\ presses = 0
    /\ botMsgs = {}
    /\ nextMid = 0
    /\ tasks = <<>>
    /\ pc = [h \in Workers |-> "idle"]
    /\ loc = [h \in Workers |-> NoLoc]
    /\ fails = 0
    /\ registry = [inst \in Instances |-> {}]
    /\ cleanups = <<>>
    /\ join = NoJoin
    /\ InitSide

\* Messages handled one at a time while the platform may refuse any call of
\* the bot (get_chat_member, delete_message, send_message,
\* restrict_chat_member) and the store may fail any write.
NextFaulty ==
    \/ Idle(1) /\ Post
    \/ Idle(1) /\ \E ch \in Channels, v \in BOOLEAN : SetMembership(ch, v)
    \/ HandleGroupMessageBegin(1)
    \/ MessageStep(1, Replies, MayRefuse)
    \/ Return(1)

SpecFaulty == InitCfg /\ [][NextFaulty]_vars

\* The clock is read in steps of one challenge timeout, which is longer
\* than the pause before the second delete attempt, and of one hour, the
\* length of the restriction that goes with a challenge.
GateDelays == {JoinChallengeTimeout, CaptchaRestrictMinutes * 60}

\* The admission gate, one event at a time: joins, challenges started by the
\* service, presses of the challenge control by the user and by somebody
\* else, cleanups waking up.  delete_message may fail for a cleanup; every
\* other call is accepted.
NextGate ==
    \/ Idle(1) /\ \E d \in GateDelays : Tick(d)
    \/ Idle(1) /\ \E old_status \in {"left", "restricted"} : OnUserJoinEntry(old_status, Accepts)
    \/ Idle(1) /\ StartCaptchaForUser(Accepts)
    \/ Idle(1) /\ \E m \in DOMAIN cleanups, reply \in DeleteReplies :
                     CaptchaCleanupAttempt(m, reply)
    \/ Idle(1) /\ \E i \in 1..Len(tasks) : DeleteMessageAfterDelay(i, Accepts)
    \/ \E m \in botMsgs, presser \in Users : HandleCaptchaCallback(1, m, presser, Accepts)
    \/ Return(1)

SpecGate == Init /\ [][NextGate]_vars

\* The admission gate on a platform that may refuse send_message and
\* restrict_chat_member.
NextGateRefusing ==
    \/ Idle(1) /\ \E d \in GateDelays : Tick(d)
    \/ Idle(1) /\ \E old_status \in {"left", "restricted"} : OnUserJoinEntry(old_status, MayRefuse)
    \/ Idle(1) /\ StartCaptchaForUser(MayRefuse)
    \/ Idle(1) /\ \E m \in DOMAIN cleanups, reply \in DeleteReplies :
                     CaptchaCleanupAttempt(m, reply)
    \/ Idle(1) /\ \E i \in 1..Len(tasks) : DeleteMessageAfterDelay(i, Accepts)
    \/ \E m \in botMsgs, presser \in Users : HandleCaptchaCallback(1, m, presser, MayRefuse)
    \/ Return(1)

SpecGateRefusing == Init /\ [][NextGateRefusing]_vars

\* The two controls side by side: messages of a non-subscribed user put a
\* subscription prompt on display, the service puts a challenge on display,
\* and the user or somebody else presses either control.
NextControls ==
    \/ Idle(1) /\ posted < MaxGateMsgs /\ Post
    \/ Idle(1) /\ \E ch \in Channels, v \in BOOLEAN : SetMembership(ch, v)
    \/ HandleGroupMessageBegin(1)
    \/ MessageStep(1, {"ok"}, Accepts)
    \/ Idle(1) /\ StartCaptchaForUser(Accepts)
    \/ \E m \in botMsgs, presser \in Users : HandleCaptchaCallback(1, m, presser, Accepts)
    \/ \E m \in botMsgs : SubcheckCallbackBegin(1, m)
    \/ \E m \in botMsgs : SubcheckCallbackByOther(1, m)
    \/ CallbackStep(1, Accepts)
    \/ Return(1)

SpecControls == Init /\ [][NextControls]_vars

\* A user posts, in or out of the linked channels, as far as the mute, is
\* sent a challenge by the service and presses its control (a restricted
\* user can still press a control).
NextMuted ==
    \/ Idle(1) /\ Post
    \/ Idle(1) /\ \E ch \in Channels, v \in BOOLEAN : SetMembership(ch, v)
    \/ HandleGroupMessageBegin(1)
    \/ MessageStep(1, {"ok"}, Accepts)
    \/ Idle(1) /\ StartCaptchaForUser(Accepts)
    \/ \E m \in botMsgs, presser \in Users : HandleCaptchaCallback(1, m, presser, Accepts)
    \/ Return(1)

SpecMuted == Init /\ [][NextMuted]_vars

\* Messages of every kind of sender, handled one at a time on a nominal
\* platform: ordinary posts of the user, and messages from bots, from the
\* service account, without sender or on behalf of a channel.
NextSenders ==
    \/ Idle(1) /\ posted < MaxGateMsgs /\ Post
    \/ Idle(1) /\ \E ch \in Channels, v \in BOOLEAN : SetMembership(ch, v)
    \/ posted < MaxGateMsgs
          /\ \E sender \in Senders, sender_chat \in BOOLEAN :
                HandleOtherMessage(1, sender, sender_chat)
    \/ HandleGroupMessageBegin(1)
    \/ MessageStep(1, {"ok"}, Accepts)
    \/ Return(1)

SpecSenders == Init /\ [][NextSenders]_vars

\* ---------------------------------------------------------- administration
\* database.py:193-204: the chats row as add_chat_if_not_exists creates it.
ChatDefaults ==
    [is_activated |-> FALSE, subscription_check_enabled |-> TRUE,
     captcha_enabled |-> TRUE, setup_complete |-> FALSE]

\* database.py:446-463: new_value = 1 - current_value, written to the one
\* column of the chats row; no other table is touched.
toggle_setting(settings, setting_name) ==
    [settings EXCEPT ![setting_name] = ~@]

\* admin.py:42-52: an admin of the chat sends /captcha.
ToggleCaptcha ==
    /\ envSteps < MaxEnv
    /\ envSteps' = envSteps + 1
    /\ chat' = toggle_setting(chat, "captcha_enabled")
    /\ storeOp' = [op |-> "toggle_captcha", before |-> rec]
    /\ UNCHANGED <<clockVars, member, restrictedUntil, isAdmin, linked, jobVars, auxVars, gateVars,
                   rec, cache, inbox, posted, presses, msgVars, pc, loc, fails>>

\* group_admin.py:458 and database.py:1078-1088: the owner confirms the
\* removal of the chat.  DELETE FROM chats cascades to chat_channel_links
\* and users_status_in_chats; the next get_chat_settings creates the chats
\* row again with its defaults.
DeleteChat ==
    /\ envSteps < MaxEnv
    /\ envSteps' = envSteps + 1
    /\ chat' = ChatDefaults
    /\ linked' = <<>>
    /\ rec' = NoRow
    /\ storeOp' = [op |-> "delete_chat", before |-> rec]
    /\ UNCHANGED <<clockVars, member, restrictedUntil, isAdmin, jobVars, auxVars, gateVars,
                   cache, inbox, posted, presses, msgVars, pc, loc, fails>>

\* What bot.get_chat(user_id) can answer in the user cleanup.
AccountReplies ==
    {"ok", "not_found", "forbidden", "bad_request_user_not_found",
     "bad_request_deactivated", "bad_request_other", "unexpected"}

\* A classification that takes every failed lookup for a deleted account.
is_deleted_or_inactive_any_error(reply) == reply # "ok"

\* user_cleanup_service.py:54-90: the answers after which the account is
\* taken for deleted or inactive.
is_deleted_or_inactive(reply) ==
    reply \in {"not_found", "forbidden", "bad_request_user_not_found",
               "bad_request_deactivated"}

\* user_cleanup_service.py:23-110, scheduled every 24 hours: the job asks the
\* platform about each stored user and deletes the users rows of those taken
\* for gone.  delete_users_by_ids (database.py:1177-1221) runs DELETE FROM
\* users with foreign keys on, and users_status_in_chats.user_id is declared
\* ON DELETE CASCADE (database.py:222-242): the status rows go with it.
ScheduledUserCleanup(reply) ==
    /\ envSteps < MaxEnv
    /\ envSteps' = envSteps + 1
    /\ rec.exists
    /\ IF is_deleted_or_inactive(reply)
       THEN /\ rec' = NoRow
            /\ storeOp' = [op |-> "delete_users_by_ids", before |-> rec]
       ELSE UNCHANGED <<rec, storeOp>>
    /\ UNCHANGED <<clockVars, member, restrictedUntil, cfgVars, jobVars, auxVars, gateVars,
                   cache, inbox, posted, presses, msgVars, pc, loc, fails>>

\* The chat under administration, one event at a time on a nominal
\* platform: posts of the user, joins, the /captcha switch, the removal of
\* the chat and the daily user cleanup.
NextAdmin ==
    \/ Idle(1) /\ posted < MaxGateMsgs /\ Post
    \/ Idle(1) /\ \E ch \in Channels, v \in BOOLEAN : SetMembership(ch, v)
    \/ HandleGroupMessageBegin(1)
    \/ MessageStep(1, {"ok"}, Accepts)
    \/ Return(1)
    \/ Idle(1) /\ \E old_status \in {"left", "restricted"} : OnUserJoinEntry(old_status, Accepts)
    \/ Idle(1) /\ ToggleCaptcha
    \/ Idle(1) /\ DeleteChat
    \/ Idle(1) /\ \E reply \in AccountReplies : ScheduledUserCleanup(reply)

SpecAdmin == Init /\ [][NextAdmin]_vars

\* ------------------------------------------------------------ background jobs
\* A sweep that also drops the entries that are exactly one lifetime old.
clear_expired_subscription_cache_at_ttl(c, current_time) ==
    [ch \in Channels |->
        IF c[ch].present /\ current_time - c[ch].timestamp >= SUBSCRIPTION_CACHE_TTL
        THEN NoEntry ELSE c[ch]]

\* subscription.py:130-143: entries older than the cache lifetime are dropped.
clear_expired_subscription_cache(c, current_time) ==
    [ch \in Channels |->
        IF c[ch].present /\ current_time - c[ch].timestamp > SUBSCRIPTION_CACHE_TTL
        THEN NoEntry ELSE c[ch]]

\* database.py:774-810: the users with a status row in the chat, in query
\* order.  The other user always has one.
get_active_chat_users(r) == (IF r.exists THEN <<"user">> ELSE <<>>) \o <<"other">>

\* database.py:753-772 and subscription.py:198-207: the chats the warm-up
\* works on.
warm_up_covers(settings, linked_channels, active_users) ==
    /\ settings.subscription_check_enabled
    /\ settings.setup_complete
    /\ Len(linked_channels) > 0
    /\ Len(active_users) > 0

\* Platform: the other user is a member of every channel.
peer_member == [ch \in Channels |-> TRUE]

\* What bot.get_chat(user_id) can answer in the warm-up (218-228) and what
\* bot.get_chat_member can (232-258).
WarmProbeReplies == {"person", "bot", "api_error", "unexpected"}
WarmReplies ==
    {"ok", "user_not_found", "chat_not_found", "bot_kicked", "other_error", "unexpected"}

\* A warm-up that leaves the cache alone when the user is unknown.
cache_after_warm_query_known_only(c, ch, reply, is_member, t) ==
    IF reply = "ok" THEN set_subscription_cache(c, ch, is_member, t) ELSE c

\* subscription.py:232-258: the cache of the user after one query of the
\* warm-up.
cache_after_warm_query(c, ch, reply, is_member, t) ==
    CASE reply = "ok" -> set_subscription_cache(c, ch, is_member, t)
      [] reply = "user_not_found" -> set_subscription_cache(c, ch, FALSE, t)
      [] OTHER -> c

\* subscription.py:250: the answers after which the channel loop is left.
channel_is_gone(reply) == reply \in {"chat_not_found", "bot_kicked"}

\* subscription.py:260: 'e_api' in locals(), asked after the channel loop.
\* The name bound by `except TelegramAPIError as e_api` is deleted when the
\* except clause is left, by break as by falling through, and it is bound
\* nowhere else.
e_api_in_locals == FALSE

breaks_user_loop(reply) == e_api_in_locals /\ channel_is_gone(reply)

\* The run moves on to the next user, or ends after the last.
warm_next_user(w, active_users) ==
    IF w.u + 1 > Len(active_users)
    THEN [w EXCEPT !.u = @ + 1, !.c = 0, !.done = TRUE]
    ELSE [w EXCEPT !.u = @ + 1, !.c = 0]

\* subscription.py:232-262: where the run stands after a query.
warm_after_query(w, reply, linked_channels, active_users) ==
    IF channel_is_gone(reply)
    THEN IF breaks_user_loop(reply)
         THEN [w EXCEPT !.c = 0, !.done = TRUE]
         ELSE warm_next_user(w, active_users)
    ELSE IF w.c < Len(linked_channels)
         THEN [w EXCEPT !.c = @ + 1]
         ELSE warm_next_user(w, active_users)

\* subscription.py:177-178: the run is over, the loop computes its next target.
daily_after_run(d, t) ==
    [d EXCEPT !.state = "waiting", !.wakes_at = next_run_target(t), !.runs = @ + 1]

\* subscription.py:156-162: the sweep wakes up and clears the cache, for
\* every user.  Nothing in the loop catches an exception: one raised in an
\* iteration ends the task.
SweepIteration(outcome) ==
    /\ sweep.state = "sleeping"
    /\ sweep.wakes_at <= now
    /\ IF outcome = "ok"
       THEN /\ cache' = clear_expired_subscription_cache(cache, now)
            /\ peerCache' = clear_expired_subscription_cache(peerCache, now)
            /\ sweep' = [sweep EXCEPT !.wakes_at = now + SweepInterval, !.runs = @ + 1]
       ELSE /\ sweep' = [sweep EXCEPT !.state = "dead", !.failed = @ + 1]
            /\ UNCHANGED <<cache, peerCache>>
    /\ UNCHANGED <<clockVars, envSteps, member, restrictedUntil, cfgVars, storeOp, daily, warm,
                   probe, auxVars, gateVars, rec, inbox, posted, presses, msgVars, pc, loc, fails>>

\* subscription.py:164-183: at the target time the daily loop starts the
\* warm-up; an exception in the iteration is logged and the loop sleeps an
\* hour before it goes round again.
DailyWake(outcome) ==
    /\ daily.state = "waiting"
    /\ daily.wakes_at <= now
    /\ IF outcome = "ok"
       THEN /\ warm' = IF warm_up_covers(chat, linked, get_active_chat_users(rec))
                       THEN [NoWarm EXCEPT !.u = 1]
                       ELSE [NoWarm EXCEPT !.done = TRUE]
            /\ daily' = [daily EXCEPT !.state = "updating"]
       ELSE /\ daily' = [daily EXCEPT !.state = "backoff",
                                       !.wakes_at = now + SchedulerBackoff,
                                       !.failed = @ + 1]
            /\ UNCHANGED warm
    /\ UNCHANGED <<clockVars, envSteps, member, restrictedUntil, cfgVars, storeOp, sweep,
                   peerCache, probe, auxVars, gateVars, rec, cache, inbox, posted, presses, msgVars,
                   pc, loc, fails>>

\* subscription.py:183 and 167-175: the hour is over, the loop goes round.
DailyResume ==
    /\ daily.state = "backoff"
    /\ daily.wakes_at <= now
    /\ daily' = [daily EXCEPT !.state = "waiting", !.wakes_at = next_run_target(now)]
    /\ UNCHANGED <<clockVars, envSteps, member, restrictedUntil, cfgVars, storeOp, sweep, warm,
                   peerCache, probe, auxVars, gateVars, rec, cache, inbox, posted, presses, msgVars,
                   pc, loc, fails>>

\* subscription.py:211-228: the warm-up comes to a user and asks the platform
\* who that is; it skips bots and users it cannot look up.
WarmProbeUser(reply) ==
    /\ daily.state = "updating"
    /\ ~warm.done
    /\ warm.c = 0
    /\ LET users == get_active_chat_users(rec)
       IN warm' = IF reply = "person"
                  THEN [warm EXCEPT !.c = 1, !.probed = @ \cup {users[warm.u]}]
                  ELSE warm_next_user(warm, users)
    /\ UNCHANGED <<clockVars, envSteps, member, restrictedUntil, cfgVars, storeOp, sweep, daily,
                   peerCache, probe, auxVars, gateVars, rec, cache, inbox, posted, presses, msgVars,
                   pc, loc, fails>>

\* subscription.py:232-262: one query of the warm-up, for the user and the
\* channel the run stands at.
WarmQuery(reply) ==
    /\ daily.state = "updating"
    /\ ~warm.done
    /\ warm.c >= 1
    /\ LET users == get_active_chat_users(rec)
           u == users[warm.u]
           ch == linked[warm.c]
           is_member == IF u = "user" THEN member[ch] ELSE peer_member[ch]
           asked == [warm EXCEPT !.log = Append(@, [user |-> u, ch |-> ch,
                                                    gone |-> channel_is_gone(reply)])]
       IN /\ cache' = IF u = "user"
                       THEN cache_after_warm_query(cache, ch, reply, is_member, now)
                       ELSE cache
          /\ peerCache' = IF u = "other"
                           THEN cache_after_warm_query(peerCache, ch, reply, is_member, now)
                           ELSE peerCache
          /\ warm' = warm_after_query(asked, reply, linked, users)
    /\ UNCHANGED <<clockVars, envSteps, member, restrictedUntil, cfgVars, storeOp, sweep, daily,
                   probe, auxVars, gateVars, rec, inbox, posted, presses, msgVars, pc, loc, fails>>

\* subscription.py:272 and 177-178: the run returns, its locals are gone,
\* and the daily loop goes round.
WarmUpReturns ==
    /\ daily.state = "updating"
    /\ warm.done
    /\ warm' = NoWarm
    /\ daily' = daily_after_run(daily, now)
    /\ UNCHANGED <<clockVars, envSteps, member, restrictedUntil, cfgVars, storeOp, sweep,
                   peerCache, probe, auxVars, gateVars, rec, cache, inbox, posted, presses, msgVars,
                   pc, loc, fails>>

\* subscription.py:278-335: one membership query on the enforcement path,
\* as check_subscription makes for each linked channel.
CheckSingleChannel(ch, reply) ==
    /\ envSteps < MaxEnv
    /\ envSteps' = envSteps + 1
    /\ LET one == check_single_channel(cache, ch, reply, member[ch], now)
       IN /\ cache' = one.cache
          /\ probe' = [n |-> probe.n + 1, ch |-> ch, reply |-> reply,
                        status |-> one.status]
    /\ UNCHANGED <<clockVars, member, restrictedUntil, cfgVars, storeOp, sweep, daily,
                   warm, peerCache, auxVars, gateVars, rec, inbox, posted, presses, msgVars,
                   pc, loc, fails>>

\* The process after a restart, in a chat where both users hold a status
\* row: the rows are in the store, the cache and the loops start afresh.
InitBackground ==
    /\ now = 0
    /\ envSteps = 0
    /\ member = [ch \in Channels |-> FALSE]
    /\ restrictedUntil = 0
    /\ chat = [is_activated |-> TRUE, subscription_check_enabled |-> TRUE,
               captcha_enabled |-> TRUE, setup_complete |-> TRUE]
    /\ isAdmin = FALSE
    /\ linked = <<1, 2>>
    /\ rec = update_user_captcha_status(NoRow, TRUE)
    /\ cache = [ch \in Channels |-> NoEntry]
    /\ inbox = 0
    /\ posted = 0
    /\ presses = 0
    /\ botMsgs = {}
    /\ nextMid = 0
    /\ tasks = <<>>
    /\ pc = [h \in Workers |-> "idle"]
    /\ loc = [h \in Workers |-> NoLoc]
    /\ fails = 0
    /\ registry = [inst \in Instances |-> {}]
    /\ cleanups = <<>>
    /\ join = NoJoin
    /\ InitSide

\* asyncio.sleep is over: the loop runs before the clock is read again.
LoopDue ==
    \/ sweep.state = "sleeping" /\ sweep.wakes_at <= now
    \/ daily.state \in {"waiting", "backoff"} /\ daily.wakes_at <= now

Quiet == daily.state # "updating"

\* The two loops, the warm-up they start and membership queries of the
\* enforcement path, one activity at a time, while the clock moves on.  A run
\* of the warm-up takes a tenth of a second per query: the clock, read in
\* steps of one cache lifetime, stands still in it.
NextBackground ==
    \/ Quiet /\ ~LoopDue /\ \E d \in Delays : Tick(d)
    \/ Quiet /\ \E outcome \in {"ok", "raises"} : SweepIteration(outcome)
    \/ \E outcome \in {"ok", "raises"} : DailyWake(outcome)
    \/ DailyResume
    \/ \E reply \in WarmProbeReplies : WarmProbeUser(reply)
    \/ \E reply \in WarmReplies : WarmQuery(reply)
    \/ WarmUpReturns
    \/ Quiet /\ \E ch \in Channels, reply \in Replies : CheckSingleChannel(ch, reply)

SpecBackground == InitBackground /\ [][NextBackground]_vars

\* ------------------------------------------------------ the channel editor
\* channel_mgmt.py:185-225: the admin opens the editor on the stored list.
StartChannelManagement ==
    /\ editor' = [NoEditor EXCEPT !.open = TRUE, !.current_channels = linked]
    /\ UNCHANGED <<clockVars, envSteps, member, restrictedUntil, cfgVars, storeOp, jobVars,
                   got, accounts, cleaned, written, gateVars, rec, cache, inbox, posted,
                   presses, msgVars, pc, loc, fails>>

\* channel_mgmt.py:308-350: the admin shares a channel; it is appended
\* unless it is in the list already or the bot has no rights in it.
HandleChannelSelect(selected_channel_id, has_permissions) ==
    /\ editor.open
    /\ editor' = IF selected_channel_id \in Range(editor.current_channels) \/ ~has_permissions
                 THEN editor
                 ELSE [editor EXCEPT !.current_channels = Append(@, selected_channel_id)]
    /\ UNCHANGED <<clockVars, envSteps, member, restrictedUntil, cfgVars, storeOp, jobVars,
                   got, accounts, cleaned, written, gateVars, rec, cache, inbox, posted,
                   presses, msgVars, pc, loc, fails>>

\* channel_mgmt.py:406-434: the admin takes a channel off the list.
HandleRemoveChannelConfirm(channel_id_to_remove) ==
    /\ editor.open
    /\ editor' = [editor EXCEPT !.current_channels =
                      SelectSeq(@, LAMBDA c : c # channel_id_to_remove)]
    /\ UNCHANGED <<clockVars, envSteps, member, restrictedUntil, cfgVars, storeOp, jobVars,
                   got, accounts, cleaned, written, gateVars, rec, cache, inbox, posted,
                   presses, msgVars, pc, loc, fails>>

\* A commit that writes the additions only.
channels_to_remove_none(state_channel_ids, db_channel_ids) == {}

\* channel_mgmt.py:476-477.
channels_to_remove(state_channel_ids, db_channel_ids) == db_channel_ids \ state_channel_ids

channels_to_add(state_channel_ids, db_channel_ids) == state_channel_ids \ db_channel_ids

\* The orders in which a loop over a set can visit its elements.
Orders(S) == {s \in [1..Cardinality(S) -> S] : Range(s) = S}

\* database.py:591-620: the link is inserted; the first link of a chat
\* switches the subscription check on.
add_linked_channel(store, channel_id) ==
    [links |-> Append(store.links, channel_id),
     chat |-> IF store.links = <<>>
              THEN [store.chat EXCEPT !.subscription_check_enabled = TRUE]
              ELSE store.chat]

\* channel_mgmt.py:483-489: the loop over channels_to_add.
RECURSIVE add_linked_channels(_, _)
add_linked_channels(store, order) ==
    IF order = <<>> THEN store
    ELSE add_linked_channels(add_linked_channel(store, Head(order)), Tail(order))

\* database.py:622-640.
remove_linked_channel(store, channel_id) ==
    [store EXCEPT !.links = SelectSeq(@, LAMBDA c : c # channel_id)]

\* channel_mgmt.py:492-498: the loop over channels_to_remove.
RECURSIVE remove_linked_channels(_, _)
remove_linked_channels(store, order) ==
    IF order = <<>> THEN store
    ELSE remove_linked_channels(remove_linked_channel(store, Head(order)), Tail(order))

\* database.py:507-517.
mark_setup_complete(settings) == [settings EXCEPT !.setup_complete = TRUE]

\* channel_mgmt.py:444-571: the admin presses "finish".  With an empty list
\* the handler answers with an alert and returns; otherwise it writes the
\* difference between the list and the stored links, marks the setup as
\* complete and clears the dialogue.
HandleFinishChannelManagement ==
    /\ editor.open
    /\ IF editor.current_channels = <<>>
       THEN /\ editor' = [editor EXCEPT !.outcome = "refused"]
            /\ UNCHANGED <<chat, linked, storeOp>>
       ELSE LET state_channel_ids == Range(editor.current_channels)
                db_channel_ids == Range(linked)
                to_add == channels_to_add(state_channel_ids, db_channel_ids)
                to_remove == channels_to_remove(state_channel_ids, db_channel_ids)
            IN \E add_order \in Orders(to_add), remove_order \in Orders(to_remove) :
                 LET added == add_linked_channels([links |-> linked, chat |-> chat], add_order)
                     synced == remove_linked_channels(added, remove_order)
                 IN /\ linked' = synced.links
                    /\ chat' = mark_setup_complete(synced.chat)
                    /\ storeOp' = [op |-> "mark_setup_complete", before |-> rec]
                    /\ editor' = [NoEditor EXCEPT !.outcome = "saved", !.added = to_add,
                                                  !.removed = to_remove]
    /\ UNCHANGED <<clockVars, envSteps, member, restrictedUntil, isAdmin, jobVars, got,
                   accounts, cleaned, written, gateVars, rec, cache, inbox, posted, presses,
                   msgVars, pc, loc, fails>>

\* The setup dialogue of one admin for the chat, in any configuration.
NextEditor ==
    \/ StartChannelManagement
    \/ \E ch \in Channels, has_permissions \in BOOLEAN : HandleChannelSelect(ch, has_permissions)
    \/ \E ch \in Channels : HandleRemoveChannelConfirm(ch)
    \/ HandleFinishChannelManagement

SpecEditor == InitCfg /\ [][NextEditor]_vars

\* ------------------------------------------------- a run of the user cleanup
\* database.py:1152-1175: the first batch_size users, oldest last_seen first.
get_users_for_cleanup_check(stored, batch_size) ==
    SubSeq(stored, 1, IF Len(stored) < batch_size THEN Len(stored) ELSE batch_size)

\* database.py:1177-1221: DELETE FROM users WHERE user_id IN (...).
delete_users_by_ids(stored, user_ids) ==
    SelectSeq(stored, LAMBDA u : u.user_id \notin user_ids)

\* user_cleanup_service.py:23-45: the job starts and reads its candidates;
\* with none it returns at once.
CleanupBegin ==
    /\ ~cleaned.running
    /\ LET candidate_user_ids == get_users_for_cleanup_check(accounts, USER_CHECK_BATCH_SIZE)
       IN cleaned' = [NoRun EXCEPT !.running = candidate_user_ids # <<>>,
                                   !.ran = candidate_user_ids = <<>>,
                                   !.candidates = candidate_user_ids]
    /\ UNCHANGED <<clockVars, envSteps, member, restrictedUntil, cfgVars, storeOp, jobVars, got,
                   accounts, editor, written, gateVars, rec, cache, inbox, posted, presses,
                   msgVars, pc, loc, fails>>

\* user_cleanup_service.py:47-96: one turn of the loop: get_chat for the
\* next candidate, who is put on the list if the answer says the account is
\* gone; the loop is left when the list is full.
CleanupCheckUser ==
    /\ cleaned.running
    /\ cleaned.checked < Len(cleaned.candidates)
    /\ Cardinality(cleaned.deleted) < MAX_DELETIONS_PER_RUN
    /\ LET user == cleaned.candidates[cleaned.checked + 1]
       IN cleaned' = [cleaned EXCEPT !.checked = @ + 1,
                                     !.deleted = IF is_deleted_or_inactive(user.reply)
                                                 THEN @ \cup {user.user_id} ELSE @]
    /\ UNCHANGED <<clockVars, envSteps, member, restrictedUntil, cfgVars, storeOp, jobVars, got,
                   accounts, editor, written, gateVars, rec, cache, inbox, posted, presses,
                   msgVars, pc, loc, fails>>

\* user_cleanup_service.py:98-110: after the loop the listed users are
\* deleted in one statement.
CleanupDelete ==
    /\ cleaned.running
    /\ \/ cleaned.checked = Len(cleaned.candidates)
       \/ Cardinality(cleaned.deleted) >= MAX_DELETIONS_PER_RUN
    /\ cleaned' = [cleaned EXCEPT !.running = FALSE, !.ran = TRUE]
    /\ accounts' = delete_users_by_ids(accounts, cleaned.deleted)
    /\ storeOp' = IF cleaned.deleted # {}
                  THEN [op |-> "delete_users_by_ids", before |-> rec]
                  ELSE storeOp
    /\ UNCHANGED <<clockVars, envSteps, member, restrictedUntil, cfgVars, jobVars, got, editor,
                   written, gateVars, rec, cache, inbox, posted, presses, msgVars, pc, loc,
                   fails>>

\* The users table when the job starts: a few users with any answer of the
\* platform, alone or behind a long run of users whose accounts are gone.
AccountLists ==
    {[i \in 1..Len(prefix \o tail) |-> [user_id |-> i, reply |-> (prefix \o tail)[i]]] :
        prefix \in {<<>>, [i \in 1..(MAX_DELETIONS_PER_RUN - 1) |-> "not_found"]},
        tail \in UNION {[1..n -> AccountReplies] : n \in 0..MaxTail}}

InitCleanup ==
    /\ InitMain
    /\ InitJobs
    /\ InitAux
    /\ accounts \in AccountLists

\* Runs of the job, one after the other, on what the run before left.
NextCleanup ==
    \/ CleanupBegin
    \/ CleanupCheckUser
    \/ CleanupDelete

SpecCleanup == InitCleanup /\ [][NextCleanup]_vars

\* ------------------------------------------------------- the cache by itself
\* Clock steps that take an entry to one second before, exactly to, and one
\* second past the end of its lifetime.
CacheSteps == {1, SUBSCRIPTION_CACHE_TTL - 1}

\* subscription.py:91-107: a read of the user's entry for channel ch.
GetCachedSubscription(ch) ==
    /\ LET r == get_cached_subscription(cache, ch, now)
       IN got' = [n |-> 1, ch |-> ch, at |-> now, is_cached |-> r[1], is_member |-> r[2]]
    /\ UNCHANGED <<clockVars, envSteps, member, restrictedUntil, cfgVars, storeOp, jobVars,
                   accounts, cleaned, editor, written, gateVars, rec, cache, inbox, posted,
                   presses, msgVars, pc, loc, fails>>

\* subscription.py:109-115: a write of the user's entry for channel ch.
SetSubscriptionCache(ch, is_member) ==
    /\ cache' = set_subscription_cache(cache, ch, is_member, now)
    /\ written' = [written EXCEPT ![ch] = [present |-> TRUE, result |-> is_member,
                                           timestamp |-> now]]
    /\ UNCHANGED <<clockVars, envSteps, member, restrictedUntil, cfgVars, storeOp, jobVars,
                   got, accounts, cleaned, editor, gateVars, rec, inbox, posted, presses,
                   msgVars, pc, loc, fails>>

\* Writes, reads and sweeps of the cache while the clock moves on.
NextCache ==
    \/ \E d \in CacheSteps : Tick(d)
    \/ \E ch \in Channels, is_member \in BOOLEAN : SetSubscriptionCache(ch, is_member)
    \/ \E ch \in Channels : GetCachedSubscription(ch)
    \/ \E outcome \in {"ok", "raises"} : SweepIteration(outcome)

SpecCache == Init /\ [][NextCache]_vars

\* ------------------------------------------------------------------ claims
FailedMsg(h) == pc[h] = "done" /\ loc[h].kind = "msg" /\ loc[h].result = "failed"

\* C1: failing evaluations of one (user, chat) that interleave lose no
\* increment: the k-th of them since the count was last reset works with
\* fail count k, so no two of them take the same branch for the same count.
C1_NoLostIncrement ==
    \A h \in Workers :
        (pc[h] \in {"branch", "done"} /\ loc[h].result = "failed") => loc[h].n = loc[h].ord

\* C2: handled one after the other, consecutive failing evaluations take
\* the fail count through 1, 2, ..., maxFails; below maxFails the count is
\* stored and nobody is muted, at maxFails the user is muted and the stored
\* count is 0 from the moment of the mute.
C2_Escalation ==
    FailedMsg(1) =>
        /\ loc[1].n = loc[1].ord
        /\ loc[1].n \in 1..max_subscription_fails
        /\ loc[1].n < max_subscription_fails =>
              /\ rec.subscription_fail_count = loc[1].n
              /\ loc[1].restricted = 0
        /\ loc[1].n = max_subscription_fails =>
              /\ rec.subscription_fail_count = 0
              /\ fails = 0
              /\ loc[1].restricted = 1
              /\ rec.ban_until_ts = loc[1].mute_until

C2_MutedWithCountReset ==
    /\ FailedMsg(1)
    /\ loc[1].n = max_subscription_fails
    /\ rec.subscription_fail_count = 0
    /\ rec.ban_until_ts > now

\* C3: once a message evaluation has found the user subscribed to every
\* linked channel, the fail count is 0 and no mute is active, in the row or
\* on the platform.
C3_SubscribedClearsMute ==
    (pc[1] = "done" /\ loc[1].kind = "msg" /\ loc[1].result = "subscribed") =>
        /\ rec.subscription_fail_count = 0
        /\ ~(rec.ban_until_ts # NULL /\ rec.ban_until_ts > now)
        /\ ~(restrictedUntil > now)

C5_MuteRecorded ==
    (FailedMsg(1) /\ loc[1].restricted = 1) =>
        /\ rec.ban_until_ts = loc[1].mute_until
        /\ restrictedUntil = loc[1].mute_until
        /\ loc[1].mute_until = loc[1].t_begin + subscription_mute_minutes * 60
        /\ rec.ban_reason = "subscription_check"

\* C6: a forced re-check by a user who is muted for subscription and is now
\* subscribed to everything leaves no ban in the row, fail count 0 and no
\* restriction on the platform.
C6_RecheckLiftsMute ==
    (pc[1] = "done" /\ loc[1].kind = "press" /\ loc[1].result = "subscribed"
        /\ loc[1].wasMuted) =>
        /\ rec.ban_until_ts = NULL
        /\ rec.subscription_fail_count = 0
        /\ restrictedUntil = 0

C6_MutedUserRechecked ==
    /\ pc[1] = "done"
    /\ loc[1].kind = "press"
    /\ loc[1].result = "subscribed"
    /\ loc[1].wasMuted
    /\ loc[1].snap = NoRow
    /\ restrictedUntil = 0

\* C7: after a failed re-check that edited the prompt, at most one deletion
\* is pending for the prompt: the one scheduled by the re-check.
C7_OneCleanupPending ==
    (pc[1] = "done" /\ loc[1].kind = "press" /\ loc[1].edited = 1) =>
        PendingFor(tasks, loc[1].mid) <= 1

\* C8: a message evaluation asks the platform about no channel for which the
\* cache held an entry younger than the TTL.
C8_FreshEntryNoCall ==
    (pc[1] = "done" /\ loc[1].kind = "msg") => loc[1].fresh \cap loc[1].queried = {}

\* C9: a forced re-check asks the platform about every linked channel,
\* whatever the cache holds, and each answer is in the cache right after:
\* a get at that moment returns (cached, the answer).
C9_ForcedCheckWritesThrough ==
    (loc[1].kind = "press" /\ pc[1] \in {"press_ok", "press_fail"}) =>
        /\ loc[1].queried = Range(linked)
        /\ \A ch \in loc[1].answered :
              get_cached_subscription(cache, ch, now) = <<TRUE, member[ch]>>

C9_ForcedOverFreshEntries ==
    /\ loc[1].kind = "press"
    /\ pc[1] \in {"press_ok", "press_fail"}
    /\ loc[1].fresh = Range(linked)
    /\ loc[1].answered = Range(linked)
    /\ \E ch \in Channels : member[ch] /\ cache[ch].result

\* C10: a message handled while the grant read from the row lies in the
\* future causes no membership query, no deletion, no warning, no write and
\* no mute; with no grant or a grant not in the future, every linked channel
\* is checked.
C10_GrantSkipsEnforcement ==
    (pc[1] = "done" /\ loc[1].kind = "msg" /\ loc[1].eligible) =>
        IF loc[1].granted # NULL /\ loc[1].granted > loc[1].t_begin
        THEN /\ loc[1].queried = {}
             /\ loc[1].result = "none"
             /\ loc[1].deleted = 0 /\ loc[1].warned = 0
             /\ loc[1].restricted = 0 /\ loc[1].noticed = 0
             /\ loc[1].writes = 0
        ELSE /\ loc[1].queried = Range(linked)
             /\ loc[1].result \in {"subscribed", "failed"}

C10_HandledUnderGrant ==
    /\ pc[1] = "done"
    /\ loc[1].kind = "msg"
    /\ loc[1].eligible
    /\ loc[1].granted > loc[1].t_begin
    /\ ~member[1]
    /\ loc[1].queried = {}

C12_RefusedQueryNotHeldAgainstUser ==
    (pc[1] = "done" /\ loc[1].kind = "msg" /\ loc[1].eligible
        /\ \A ch \in Range(linked) : member[ch]) =>
        /\ loc[1].result # "failed"
        /\ loc[1].warned = 0
        /\ loc[1].n = 0
        /\ loc[1].restricted = 0

\* C13: a failing evaluation whose write of the new fail count did not reach
\* the store sends no warning and applies no mute.
C13_NoEffectOnUnstoredCount ==
    (FailedMsg(1) /\ ~loc[1].stored) =>
        /\ loc[1].warned = 0
        /\ loc[1].restricted = 0
        /\ loc[1].noticed = 0

\* C14: a cleanup whose challenge was verified before its delay elapsed
\* never attempts its delete, and its key is in no registry afterwards.
C14_CancelledCleanupNeverFires ==
    \A m \in DOMAIN cleanups :
        cleanups[m].pressed =>
            /\ cleanups[m].attempts = 0
            /\ m \notin registry[cleanups[m].owner]

\* C15: for every message at most one deletion task is live at any time:
\* the cleanup registered for it, or the task that replaced it.
C15_OneLiveTaskPerKey ==
    \A m \in DOMAIN cleanups :
        (IF Live(m) THEN 1 ELSE 0) + PendingFor(tasks, m) <= 1

\* C16: once a cleanup has fired and finished, its key is gone from the
\* registry that held it and was taken out exactly once, whatever
\* delete_message answered.
C16_EntryRemovedOnceOnFire ==
    \A m \in DOMAIN cleanups :
        cleanups[m].state = "finished" =>
            /\ m \notin registry[cleanups[m].owner]
            /\ cleanups[m].removals = 1

\* A cleanup has finished although delete_message failed every time and
\* the challenge is still on display.
C16_FiredWithFailedDelete ==
    \E m \in DOMAIN cleanups :
        /\ cleanups[m].state = "finished"
        /\ cleanups[m].attempts = max_attempts
        /\ \E b \in botMsgs : b.mid = m

\* C17: a fired cleanup calls delete_message at most once.
C17_OneDeleteAttemptPerFire ==
    \A m \in DOMAIN cleanups : cleanups[m].attempts <= 1

\* C18: a join of a non-admin user who has not passed the captcha, into an
\* activated chat with captcha enabled, starts a challenge.
C18_JoinStartsChallenge ==
    (join.handled /\ join.due) => (join.challenged /\ ~join.raised)

\* C19: a press by somebody other than the user a control names ends the
\* handler at once and changes nothing: not captcha_passed, not the
\* restriction, not the cleanup, not the messages, not the cache.
C19_ControlBoundToNamedUser ==
    [][(pc[1] = "idle" /\ loc'[1].by = "other") =>
          /\ pc'[1] = "done"
          /\ UNCHANGED <<rec, restrictedUntil, botMsgs, tasks, cleanups, registry,
                         cache, member, fails, inbox>>]_vars

\* Somebody else has pressed the control of a challenge that is pending:
\* the user is unverified and restricted, the cleanup is asleep.
C19_OtherPressedPendingChallenge ==
    /\ pc[1] = "done"
    /\ loc[1].kind = "captcha_rejected"
    /\ loc[1].by = "other"
    /\ ~rec.captcha_passed
    /\ restrictedUntil > now
    /\ Live(loc[1].mid)
    /\ \E b \in Challenges : b.mid = loc[1].mid

\* C20: after the named user pressed the challenge control, captcha_passed
\* is true, the restriction is lifted, no cleanup of the challenge is live
\* and a deletion of the challenge is due at once.
C20_VerificationEffects ==
    (pc[1] = "done" /\ loc[1].kind = "captcha") =>
        /\ rec.captcha_passed
        /\ restrictedUntil = 0
        /\ ~Live(loc[1].mid)
        /\ \E i \in 1..Len(tasks) :
              tasks[i].mid = loc[1].mid /\ tasks[i].fires_at <= now

\* C28: a message in a chat that is not activated, or whose setup is not
\* complete, is left alone: no status row read, no admin check, no
\* membership query, no deletion.
C28_NotReadyChatLeftAlone ==
    (pc[1] = "done" /\ loc[1].kind = "msg"
        /\ (~chat.is_activated \/ ~chat.setup_complete)) =>
        /\ ~loc[1].status_read
        /\ ~loc[1].admin_checked
        /\ loc[1].queried = {}
        /\ loc[1].result = "none"
        /\ loc[1].deleted = 0

\* C29: a message handled while the status row shows a ban that is not yet
\* over is deleted, and no membership query is made for it.
C29_BannedUserMessageDeleted ==
    (pc[1] = "done" /\ loc[1].kind = "msg" /\ loc[1].banned) =>
        /\ loc[1].deleted = 1
        /\ loc[1].queried = {}

\* C30: a message from a bot account, on behalf of a channel or without
\* sender causes no membership query, no deletion, no warning, no
\* restriction and no write to the store.
C30_ForeignMessageIgnored ==
    (pc[1] = "done" /\ loc[1].kind = "msg"
        /\ (loc[1].sender \in {"none", "bot"} \/ loc[1].sender_chat)) =>
        /\ loc[1].queried = {}
        /\ loc[1].deleted = 0 /\ loc[1].warned = 0
        /\ loc[1].restricted = 0 /\ loc[1].noticed = 0
        /\ loc[1].writes = 0

C23_ToggleOffMarksPassed ==
    \A h \in Workers :
        (/\ pc[h] = "check" /\ loc[h].kind = "msg"
         /\ storeOp.op = "toggle_captcha" /\ ~chat.captcha_enabled
         /\ storeOp.before.exists /\ ~storeOp.before.captcha_passed)
        => loc[h].snap.captcha_passed

C24_LoopsSurviveFailure ==
    /\ sweep.failed > 0 => sweep.state = "sleeping"
    /\ daily.failed > 0 => daily.state \in {"waiting", "backoff", "updating"}

\* C25: when a run of the warm-up is over, no query was sent to a channel
\* after a query of the run had found that channel gone, and every user the
\* run took up was queried for every linked channel it did not find gone.
C25_GoneChannelAbortsOnlyItself ==
    (daily.state = "updating" /\ warm.done) =>
        /\ \A i, j \in 1..Len(warm.log) :
               (i < j /\ warm.log[i].gone) => warm.log[j].ch # warm.log[i].ch
        /\ \A u \in warm.probed, ch \in Range(linked) :
               (\A i \in 1..Len(warm.log) : ~(warm.log[i].ch = ch /\ warm.log[i].gone))
               => \E i \in 1..Len(warm.log) : warm.log[i].user = u /\ warm.log[i].ch = ch

\* The cache entry a query leaves when the platform does not know the user.
NotMemberSince(c, ch, t) ==
    /\ c[ch] = [present |-> TRUE, result |-> FALSE, timestamp |-> t]
    /\ get_cached_subscription(c, ch, t) = <<TRUE, FALSE>>

\* C26: a query answered "user not found", made by check_single_channel or
\* by the warm-up, leaves the cache entry of that user and channel saying
\* not a member, stamped with the time of the query; check_single_channel
\* returns a status that makes the channel count as missing.
C26_UnknownUserCachedNotMember ==
    /\ [][\A ch \in Channels :
            CheckSingleChannel(ch, "user_not_found")
            => (NotMemberSince(cache', ch, now) /\ probe'.status = "left")]_vars
    /\ [][WarmQuery("user_not_found")
            => LET u == get_active_chat_users(rec)[warm.u]
                   ch == linked[warm.c]
               IN NotMemberSince(IF u = "user" THEN cache' ELSE peerCache', ch, now)]_vars

\* A run of the warm-up was told that the other user, a member of every
\* channel, is unknown, and later check_single_channel was told the same
\* about the user: both entries are in the cache.
C26_UnknownUserSeenByBoth ==
    /\ daily.runs > 0
    /\ \E ch \in Channels : peerCache[ch].present /\ ~peerCache[ch].result
    /\ probe.reply = "user_not_found"
    /\ probe.status = "left"
    /\ NotMemberSince(cache, probe.ch, now)

\* C32: once the owner has granted the user special access with 0 days,
\* the exemption test of the message handler finds the grant in force, at
\* the time of the grant and at every later reading of the clock.
C32_UnlimitedGrantExempts ==
    [][OwnerGrantsAccess(0)
        => \A d \in Delays \cup {0} :
              access_granted(rec'.granted_access_until_ts, now + d)]_vars

\* C33: a read of the cache made at time t' after the last write put(ch, v)
\* at time t returns (cached, v) when t' - t < TTL and (not cached, _) when
\* t' - t >= TTL, whatever was written before and whatever a sweep did in
\* between; a write changes no entry of another channel or another user.
C33_CacheGetAfterPut ==
    /\ [][\A ch \in Channels :
            (GetCachedSubscription(ch) /\ written[ch].present)
                => /\ got'.is_cached = (now - written[ch].timestamp < SUBSCRIPTION_CACHE_TTL)
                   /\ got'.is_cached => got'.is_member = written[ch].result]_vars
    /\ [][\A ch \in Channels, v \in BOOLEAN :
            SetSubscriptionCache(ch, v)
                => /\ \A o \in Channels \ {ch} : cache'[o] = cache[o]
                   /\ peerCache' = peerCache]_vars

\* A read has just reported "not cached" for an entry that is exactly one
\* lifetime old and still in the cache.
C33_ReadAtEndOfLifetime ==
    /\ got.n = 1 /\ got.at = now /\ ~got.is_cached
    /\ written[got.ch].present
    /\ cache[got.ch] = written[got.ch]
    /\ now - written[got.ch].timestamp = SUBSCRIPTION_CACHE_TTL

\* C34 (as claimed): after a sweep every entry that a read would report as
\* not cached because of its age is gone, and every entry a read would
\* report as cached is kept as it was.
C34_SweepRemovesWhatGetRejects ==
    [][SweepIteration("ok")
        => \A ch \in Channels :
              cache[ch].present =>
                 cache'[ch] = IF get_cached_subscription(cache, ch, now)[1]
                              THEN cache[ch] ELSE NoEntry]_vars

\* C34 (amended): a sweep drops exactly the entries older than the
\* lifetime; an entry that is exactly one lifetime old, or younger, is kept
\* with its value and timestamp.
C34_SweepRemovesOlderThanTtl ==
    [][SweepIteration("ok")
        => \A ch \in Channels :
              cache[ch].present =>
                 /\ now - cache[ch].timestamp > SUBSCRIPTION_CACHE_TTL => ~cache'[ch].present
                 /\ now - cache[ch].timestamp <= SUBSCRIPTION_CACHE_TTL => cache'[ch] = cache[ch]]_vars

\* A sweep has just run: it dropped an entry written more than a lifetime
\* ago and kept one that is exactly one lifetime old.
C34_SweptAtTheBoundary ==
    /\ sweep.runs >= 1 /\ sweep.wakes_at = now + SweepInterval
    /\ \E ch \in Channels :
          /\ cache[ch].present
          /\ now - cache[ch].timestamp = SUBSCRIPTION_CACHE_TTL
    /\ \E ch \in Channels :
          /\ written[ch].present /\ ~cache[ch].present
          /\ now - written[ch].timestamp > SUBSCRIPTION_CACHE_TTL

C40_CommitMakesStoredEqualEditor ==
    [][HandleFinishChannelManagement
        => IF editor.current_channels = <<>>
           THEN /\ linked' = linked /\ chat' = chat
                /\ editor'.outcome = "refused"
           ELSE /\ Range(linked') = Range(editor.current_channels)
                /\ Len(linked') = Cardinality(Range(linked'))
                /\ editor'.added = Range(editor.current_channels) \ Range(linked)
                /\ editor'.removed = Range(linked) \ Range(editor.current_channels)
                /\ Range(linked') = (Range(linked) \cup editor'.added) \ editor'.removed]_vars

\* A commit has just replaced the one stored channel by the other.
C40_CommitSwappedTheChannel ==
    /\ editor.outcome = "saved"
    /\ editor.added = {2} /\ editor.removed = {1}
    /\ linked = <<2>>

C37_ChallengedUserIsRestricted ==
    \A m \in DOMAIN cleanups :
        (/\ cleanups[m].state = "sleeping" /\ cleanups[m].fires_at > now
         /\ \E b \in botMsgs : b.mid = m /\ b.kind = "challenge"
         /\ ~rec.captcha_passed)
            => restrictedUntil > now

\* C38: the step in which the user passes the captcha while the row holds
\* a mute of the subscription check that has not run out leaves that mute
\* in force: ban_until_ts stays in the row and the user stays restricted
\* at least until then.
C38_CaptchaLiftKeepsSubscriptionMute ==
    [][(/\ ~rec.captcha_passed /\ rec'.captcha_passed
        /\ rec.ban_until_ts # NULL /\ rec.ban_until_ts > now)
          => /\ rec'.ban_until_ts = rec.ban_until_ts
             /\ restrictedUntil' >= rec.ban_until_ts]_vars

\* C39: a successful re-check changes the user's restriction only if the
\* row holds a mute that has not run out; a user restricted for an
\* unanswered challenge stays restricted.
C39_RecheckLiftsOnlySubscriptionMute ==
    [][(/\ pc[1] = "press_ok" /\ pc'[1] = "done"
        /\ ~(rec.ban_until_ts # NULL /\ rec.ban_until_ts > now)
        /\ restrictedUntil > now)
          => restrictedUntil' > now]_vars

====
